---------------------------- MODULE Spec2Model ----------------------------
(***************************************************************************)
(* JSONWalker / JSONSplitWalker (json_walker.py) and CompactEncoder        *)
(* (compact_encoder.py).                                                   *)
(*                                                                         *)
(* Python containers are shared by reference, so the model keeps a heap of *)
(* dict and list objects; a JSON value is a scalar or a reference into the *)
(* heap.  A walker is a record (_data, _parent, _parent_key) held in the   *)
(* table `walkers`; walker 1 is the root walker built by JSONWalker(data). *)
(***************************************************************************)
EXTENDS Integers, Sequences, FiniteSets, TLC

VARIABLES
    heap,       \* heap[i]: the i-th dict or list object ever allocated
    walkers,    \* walkers[w]: the JSONWalker objects the caller holds
    split,      \* the JSONSplitWalker the caller holds: its _data (walker ids)
    last,       \* the last operation called, its arguments and its outcome
    fresh,      \* the walkers made since the last data = ... or create_path
    nops,       \* number of operations called so far
    encoder     \* the CompactEncoder the caller holds: indent, respect_indent

vars == <<heap, walkers, split, last, fresh, nops, encoder>>

(***************************************************************************)
(* Bounds of the model.                                                    *)
(***************************************************************************)
MaxOps == 3         \* operations called on one tree (and then the last
                    \* create_path call may be repeated once)
MaxIdx == 1         \* largest list index used as a key
MaxEncodes == 3     \* encode calls on one CompactEncoder

(***************************************************************************)
(* Values.                                                                 *)
(***************************************************************************)
Num(n) == [t |-> "num", n |-> n]
Str(s) == [t |-> "str", s |-> s]
Null == [t |-> "null"]
Exc(e) == [t |-> "exc", e |-> e]        \* an Exception instance held as data
Ref(i) == [t |-> "ref", id |-> i]       \* a dict or list object of the heap

Dict(ents) == [t |-> "dict", ents |-> ents]    \* ents: <<[key, val], ...>>
List(items) == [t |-> "list", items |-> items]

SK(s) == [k |-> "str", s |-> s]         \* a str key
IK(i) == [k |-> "int", i |-> i]         \* an int key
NoKey == [k |-> "none"]                 \* _parent_key = None
NoParent == 0                           \* _parent = None

\* The characters of the strings the model uses.
Chars(s) ==
    CASE s = "a" -> <<"a">>
      [] s = "b" -> <<"b">>
      [] s = "ab" -> <<"a", "b">>
      [] s = "x" -> <<"x">>
      [] s = "y" -> <<"y">>
      [] s = "xy" -> <<"x", "y">>
      [] OTHER -> <<"a", "b", "c">>       \* "abc"

IsExc(v) == v.t = "exc"
IsDict(hp, v) == v.t = "ref" /\ hp[v.id].t = "dict"
IsList(hp, v) == v.t = "ref" /\ hp[v.id].t = "list"

\* Position of key in the dict's entries, 0 when absent (`key in d`).
RECURSIVE FindKey(_, _, _)
FindKey(ents, key, i) ==
    IF i > Len(ents) THEN 0
    ELSE IF ents[i].key = key THEN i
    ELSE FindKey(ents, key, i + 1)

HasKey(hp, v, key) == FindKey(hp[v.id].ents, key, 1) # 0

\* Python's sequence index: 0 <= i < n or -n <= i < 0 counted from the end.
SeqPos(n, i) ==
    IF 0 <= i /\ i < n THEN i + 1
    ELSE IF i < 0 /\ -n <= i THEN n + i + 1
    ELSE 0

Raised(e) == [ok |-> FALSE, e |-> e]
Got(v) == [ok |-> TRUE, v |-> v]

\* Python's data[key]: the value, or the exception the subscript raises.
GetItem(hp, data, key) ==
    IF IsDict(hp, data) THEN
        LET i == FindKey(hp[data.id].ents, key, 1)
        IN  IF i = 0 THEN Raised("KeyError") ELSE Got(hp[data.id].ents[i].val)
    ELSE IF IsList(hp, data) THEN
        IF key.k # "int" THEN Raised("TypeError")
        ELSE LET p == SeqPos(Len(hp[data.id].items), key.i)
             IN  IF p = 0 THEN Raised("IndexError")
                 ELSE Got(hp[data.id].items[p])
    ELSE IF data.t = "str" THEN
        IF key.k # "int" THEN Raised("TypeError")
        ELSE LET p == SeqPos(Len(Chars(data.s)), key.i)
             IN  IF p = 0 THEN Raised("IndexError")
                 ELSE Got(Str(Chars(data.s)[p]))
    ELSE Raised("TypeError")     \* int, None and Exception are not subscriptable

\* Python's data[key] = value: the new heap, or the exception raised.
SetItem(hp, data, key, value) ==
    IF IsDict(hp, data) THEN
        LET ents == hp[data.id].ents
            i == FindKey(ents, key, 1)
            e == [key |-> key, val |-> value]
        IN  [ok |-> TRUE,
             hp |-> [hp EXCEPT ![data.id].ents =
                        IF i = 0 THEN Append(ents, e)
                        ELSE [ents EXCEPT ![i] = e]]]
    ELSE IF IsList(hp, data) THEN
        IF key.k # "int" THEN Raised("TypeError")
        ELSE LET p == SeqPos(Len(hp[data.id].items), key.i)
             IN  IF p = 0 THEN Raised("IndexError")
                 ELSE [ok |-> TRUE,
                       hp |-> [hp EXCEPT ![data.id].items[p] = value]]
    ELSE Raised("TypeError")

(***************************************************************************)
(* JSONWalker.                                                             *)
(***************************************************************************)
JSONWalker(data, parent, parent_key) ==
    [data |-> data, parent |-> parent, parent_key |-> parent_key]

\* JSONWalker.root: follow _parent until it is None.
RECURSIVE root(_, _)
root(ws, w) == IF ws[w].parent = NoParent THEN w ELSE root(ws, ws[w].parent)

\* Mutant of path: the keys are not reversed (walker first, root last).
RECURSIVE path_not_reversed(_, _)
path_not_reversed(ws, w) ==
    IF ws[w].parent = NoParent THEN <<>>
    ELSE <<ws[w].parent_key>> \o path_not_reversed(ws, ws[w].parent)

\* JSONWalker.path: the parent keys from the root down to the walker.
RECURSIVE path(_, _)
path(ws, w) ==
    IF ws[w].parent = NoParent THEN <<>>
    ELSE Append(path(ws, ws[w].parent), ws[w].parent_key)

\* root_data = root_data[key] for every key: the value, or the exception.
RECURSIVE Resolve(_, _, _)
Resolve(hp, data, keys) ==
    IF keys = <<>> THEN Got(data)
    ELSE LET r == GetItem(hp, data, Head(keys))
         IN  IF r.ok THEN Resolve(hp, r.v, Tail(keys)) ELSE r

\* JSONWalker.exists
exists(hp, ws, w) == Resolve(hp, ws[root(ws, w)].data, path(ws, w)).ok

\* Mutant of truediv: the new walker is linked to the root, not to self.
truediv_parent_is_root(hp, ws, w, key) ==
    LET r == GetItem(hp, ws[w].data, key)
    IN  JSONWalker(IF r.ok THEN r.v ELSE Exc(r.e), root(ws, w), key)

\* JSONWalker.__truediv__: the new walker.
truediv(hp, ws, w, key) ==
    LET r == GetItem(hp, ws[w].data, key)
    IN  JSONWalker(IF r.ok THEN r.v ELSE Exc(r.e), w, key)


\* The (key, value) pairs of a dict (d.items()) or of a list (enumerate(l)).
Items(hp, data) ==
    IF IsDict(hp, data) THEN hp[data.id].ents
    ELSE [i \in 1..Len(hp[data.id].items) |->
            [key |-> IK(i - 1), val |-> hp[data.id].items[i]]]

\* A regular expression of the model: a sequence of atoms, each a set of
\* characters, possibly starred.  re.fullmatch(atoms, chars) # None.
RECURSIVE fullmatch(_, _)
fullmatch(atoms, chars) ==
    IF atoms = <<>> THEN chars = <<>>
    ELSE LET a == Head(atoms)
         IN  IF a.star THEN
                 \/ fullmatch(Tail(atoms), chars)
                 \/ /\ chars # <<>>
                    /\ Head(chars) \in a.cs
                    /\ fullmatch(atoms, Tail(chars))
             ELSE /\ chars # <<>>
                  /\ Head(chars) \in a.cs
                  /\ fullmatch(Tail(atoms), Tail(chars))

Letters == {"a", "b", "c", "x", "y"}
Atom(cs) == [cs |-> cs, star |-> FALSE]
Star(cs) == [cs |-> cs, star |-> TRUE]

\* The keys JSONWalker.__floordiv__ accepts, and one it does not.
ANY == [sel |-> "None"]
ANY_INT == [sel |-> "int"]
ANY_STR == [sel |-> "str"]
SKIP_LIST == [sel |-> "SKIP_LIST"]
Regex(atoms) == [sel |-> "regex", pat |-> atoms]
BadKey == [sel |-> "other"]                \* e.g. 1.5

\* The walkers a split makes are appended to the table; data lists them.
SplitWalker(ws, data) == [ok |-> TRUE, ws |-> ws, data |-> data]

\* One walker per (key, value) pair, with parent w.
Fan(ws, w, ents) ==
    SplitWalker(
        ws \o [i \in 1..Len(ents) |-> JSONWalker(ents[i].val, w, ents[i].key)],
        [i \in 1..Len(ents) |-> Len(ws) + i])

\* Mutant of RegexMatches: re.match, which matches a prefix of the key.
RegexMatches_prefix(pat, e) ==
    \E n \in 0..Len(Chars(e.key.s)) : fullmatch(pat, SubSeq(Chars(e.key.s), 1, n))

\* re.fullmatch(key, k) for the field e of the dict
RegexMatches(pat, e) == fullmatch(pat, Chars(e.key.s))

\* Mutant of floordiv: None (any item) on a value that is neither dict nor
\* list passes the walker through, as SKIP_LIST does.
floordiv_any_passes(hp, ws, w, key) ==
    LET d == ws[w].data
    IN  CASE key.sel = "None" ->
               IF IsDict(hp, d) \/ IsList(hp, d) THEN Fan(ws, w, Items(hp, d))
               ELSE SplitWalker(ws, <<w>>)
          [] key.sel = "int" ->
               IF IsList(hp, d) THEN Fan(ws, w, Items(hp, d))
               ELSE SplitWalker(ws, <<>>)
          [] key.sel = "str" ->
               IF IsDict(hp, d) THEN Fan(ws, w, Items(hp, d))
               ELSE SplitWalker(ws, <<>>)
          [] key.sel = "regex" ->
               IF IsDict(hp, d) THEN
                   IF \E i \in 1..Len(Items(hp, d)) : Items(hp, d)[i].key.k # "str"
                   THEN Raised("TypeError")
                   ELSE Fan(ws, w, SelectSeq(Items(hp, d),
                                     LAMBDA e : RegexMatches(key.pat, e)))
               ELSE SplitWalker(ws, <<>>)
          [] key.sel = "SKIP_LIST" ->
               IF IsList(hp, d) THEN Fan(ws, w, Items(hp, d))
               ELSE SplitWalker(ws, <<w>>)
          [] OTHER -> Raised("TypeError")

\* JSONWalker.__floordiv__
floordiv(hp, ws, w, key) ==
    LET d == ws[w].data
    IN  CASE key.sel = "None" ->
               IF IsDict(hp, d) \/ IsList(hp, d) THEN Fan(ws, w, Items(hp, d))
               ELSE SplitWalker(ws, <<>>)
          [] key.sel = "int" ->
               IF IsList(hp, d) THEN Fan(ws, w, Items(hp, d))
               ELSE SplitWalker(ws, <<>>)
          [] key.sel = "str" ->
               IF IsDict(hp, d) THEN Fan(ws, w, Items(hp, d))
               ELSE SplitWalker(ws, <<>>)
          [] key.sel = "regex" ->
               IF IsDict(hp, d) THEN
                   \* re.fullmatch raises TypeError on a key that is no str
                   IF \E i \in 1..Len(Items(hp, d)) : Items(hp, d)[i].key.k # "str"
                   THEN Raised("TypeError")
                   ELSE Fan(ws, w, SelectSeq(Items(hp, d),
                                     LAMBDA e : RegexMatches(key.pat, e)))
               ELSE SplitWalker(ws, <<>>)
          [] key.sel = "SKIP_LIST" ->
               IF IsList(hp, d) THEN Fan(ws, w, Items(hp, d))
               ELSE SplitWalker(ws, <<w>>)
          [] OTHER -> Raised("TypeError")

\* Mutant of split_truediv: the walkers holding an Exception are kept too.
RECURSIVE split_truediv_no_filter(_, _, _, _)
split_truediv_no_filter(hp, ws, data, key) ==
    IF data = <<>> THEN SplitWalker(ws, <<>>)
    ELSE LET ws1 == Append(ws, truediv(hp, ws, Head(data), key))
             rest == split_truediv_no_filter(hp, ws1, Tail(data), key)
         IN  SplitWalker(rest.ws, <<Len(ws1)>> \o rest.data)

\* JSONSplitWalker.__truediv__
RECURSIVE split_truediv(_, _, _, _)
split_truediv(hp, ws, data, key) ==
    IF data = <<>> THEN SplitWalker(ws, <<>>)
    ELSE LET new_walker == truediv(hp, ws, Head(data), key)
             keep == ~IsExc(new_walker.data)
             ws1 == IF keep THEN Append(ws, new_walker) ELSE ws
             rest == split_truediv(hp, ws1, Tail(data), key)
         IN  SplitWalker(rest.ws,
                         IF keep THEN <<Len(ws1)>> \o rest.data ELSE rest.data)

\* JSONSplitWalker.__floordiv__
RECURSIVE split_floordiv(_, _, _, _)
split_floordiv(hp, ws, data, key) ==
    IF data = <<>> THEN SplitWalker(ws, <<>>)
    ELSE LET new_walker == floordiv(hp, ws, Head(data), key)
         IN  IF ~new_walker.ok THEN new_walker
             ELSE LET rest == split_floordiv(hp, new_walker.ws, Tail(data), key)
                  IN  IF ~rest.ok THEN rest
                      ELSE SplitWalker(rest.ws, new_walker.data \o rest.data)

\* JSONWalker.data setter: the heap and the table after it, or the exception.
data_setter(hp, ws, w, value) ==
    IF ws[w].parent # NoParent THEN
        LET r == SetItem(hp, ws[ws[w].parent].data, ws[w].parent_key, value)
        IN  IF ~r.ok THEN r
            ELSE [ok |-> TRUE, hp |-> r.hp, ws |-> [ws EXCEPT ![w].data = value]]
    ELSE [ok |-> TRUE, hp |-> hp, ws |-> [ws EXCEPT ![w].data = value]]

(***************************************************************************)
(* JSONWalker.create_path.  The loop state: the heap, the table (fresh     *)
(* walkers made by curr_item / key are appended), curr_item, the flag      *)
(* can_break_data_structure, and the exception raised ("" while none).     *)
(***************************************************************************)
Loop(hp, ws, curr, cbs) == [hp |-> hp, ws |-> ws, curr |-> curr, cbs |-> cbs, e |-> ""]
Raise(st, e) == [st EXCEPT !.e = e]

\* curr_item.data = value, inside the loop
LoopSet(st, value) ==
    LET r == data_setter(st.hp, st.ws, st.curr, value)
    IN  IF r.ok THEN [st EXCEPT !.hp = r.hp, !.ws = r.ws] ELSE Raise(st, r.e)

\* curr_item = curr_item / key
LoopDescend(st, key) ==
    [st EXCEPT !.ws = Append(st.ws, truediv(st.hp, st.ws, st.curr, key)),
               !.curr = Len(st.ws) + 1]

\* Mutant of BreakStructure: can_break_data_structure is not consulted.
BreakStructure_always(st, kind) ==
    LET d == st.ws[st.curr].data
        same == IF kind = "dict" THEN IsDict(st.hp, d) ELSE IsList(st.hp, d)
        obj == IF kind = "dict" THEN Dict(<<>>) ELSE List(<<>>)
    IN  IF same THEN st
        ELSE LoopSet([st EXCEPT !.hp = Append(st.hp, obj)], Ref(Len(st.hp) + 1))

\* if not isinstance(curr_item.data, kind): ...; curr_item.data = {} or []
BreakStructure(st, kind) ==
    LET d == st.ws[st.curr].data
        same == IF kind = "dict" THEN IsDict(st.hp, d) ELSE IsList(st.hp, d)
        obj == IF kind = "dict" THEN Dict(<<>>) ELSE List(<<>>)
    IN  IF same THEN st
        ELSE IF ~st.cbs THEN Raise(st, "KeyError")
        ELSE LoopSet([st EXCEPT !.hp = Append(st.hp, obj)], Ref(Len(st.hp) + 1))

\* Mutant of FillList: range(key - len), one item short.
FillList_one_short(st, n, fill) ==
    LET d == st.ws[st.curr].data
        more == [i \in 1..(n - 1) |-> fill]
    IN  LoopSet([st EXCEPT !.hp[d.id].items = @ \o more], d)

\* curr_item.data += [empty_list_item_factory() for _ in range(1+key-len)]:
\* the list is extended in place and then assigned through the setter.
FillList(st, n, fill) ==
    LET d == st.ws[st.curr].data
        more == [i \in 1..n |-> fill]
    IN  LoopSet([st EXCEPT !.hp[d.id].items = @ \o more], d)

\* The element of a one-element set.  Only({f(x) : x \in {e}}) is f(e) with
\* e evaluated once, as a statement sequence evaluates it.
Only(S) == CHOOSE x \in S : TRUE

\* if key not in curr_item.data: can_break_data_structure = True
\* curr_item = curr_item / key
StrKeyDescend(st, key) ==
    IF ~HasKey(st.hp, st.ws[st.curr].data, key)
    THEN LoopDescend([st EXCEPT !.cbs = TRUE], key)
    ELSE LoopDescend(st, key)

\* The body of `for key in path` for a str key.
StrKeyStep(st, key) ==
    Only({ IF s1.e # "" THEN s1 ELSE StrKeyDescend(s1, key) :
           s1 \in {BreakStructure(st, "dict")} })

\* Mutant of IntKeyFill: can_create_empty_list_items is checked only after
\* the list has been filled.
IntKeyFill_check_after_fill(st, key, can_create_empty_list_items, fill) ==
    LET len == Len(st.hp[st.ws[st.curr].data.id].items)
    IN  IF len - 1 < key.i THEN
            Only({ IF s2.e # "" THEN s2
                   ELSE IF ~can_create_empty_list_items THEN Raise(s2, "KeyError")
                   ELSE LoopDescend([s2 EXCEPT !.cbs = TRUE], key) :
                   s2 \in {FillList(st, 1 + key.i - len, fill)} })
        ELSE LoopDescend(st, key)

\* if len(curr_item.data) - 1 < key: ...; curr_item = curr_item / key
IntKeyFill(st, key, can_create_empty_list_items, fill) ==
    LET len == Len(st.hp[st.ws[st.curr].data.id].items)
    IN  IF len - 1 < key.i THEN
            IF ~can_create_empty_list_items THEN Raise(st, "KeyError")
            ELSE Only({ IF s2.e # "" THEN s2
                        ELSE LoopDescend([s2 EXCEPT !.cbs = TRUE], key) :
                        s2 \in {FillList(st, 1 + key.i - len, fill)} })
        ELSE LoopDescend(st, key)

\* The body of `for key in path` for an int key.
IntKeyStep(st, key, can_create_empty_list_items, fill) ==
    IF key.i < 0 THEN Raise(st, "KeyError")
    ELSE Only({ IF s1.e # "" THEN s1
                ELSE IntKeyFill(s1, key, can_create_empty_list_items, fill) :
                s1 \in {BreakStructure(st, "list")} })

\* One iteration of `for key in path`.
KeyStep(st, key, can_create_empty_list_items, fill) ==
    IF key.k = "str" THEN StrKeyStep(st, key)
    ELSE IF key.k = "int"
         THEN IntKeyStep(st, key, can_create_empty_list_items, fill)
    ELSE Raise(st, "KeyError")

\* for key in path: ...
RECURSIVE PathLoop(_, _, _, _)
PathLoop(st, keys, can_create_empty_list_items, fill) ==
    IF keys = <<>> \/ st.e # "" THEN st
    ELSE Only({ PathLoop(s1, Tail(keys), can_create_empty_list_items, fill) :
                s1 \in {KeyStep(st, Head(keys), can_create_empty_list_items, fill)} })

\* The options of create_path.
Options(exists_ok, cbs, ccel, fill) ==
    [exists_ok |-> exists_ok, can_break_data_structure |-> cbs,
     can_create_empty_list_items |-> ccel, fill |-> fill]

Outcome(hp, ws, e) == [hp |-> hp, ws |-> ws, e |-> e]

\* The caller's walkers after the loop raised: of them only the root walker
\* can have been assigned to.
AfterRaise(ws, r, st) ==
    Outcome(st.hp, [ws EXCEPT ![r].data = st.ws[r].data], st.e)

\* self._parent = curr_item.parent; self._parent_key = curr_item.parent_key
\* self.data = data
AfterLoop(st, w, data) ==
    Only({ Only({ IF s.ok THEN Outcome(s.hp, s.ws, "")
                  ELSE Outcome(st.hp, ws1, s.e) :
                  s \in {data_setter(st.hp, ws1, w, data)} }) :
           ws1 \in {[SubSeq(st.ws, 1, Len(st.ws) - 1) EXCEPT
                       ![w].parent = st.ws[st.curr].parent,
                       ![w].parent_key = st.ws[st.curr].parent_key]} })

\* JSONWalker.create_path: the heap and the table after the call, and the
\* exception it raised ("" when it returned).  The walkers the loop made and
\* dropped are not kept; the parents it linked the walker to are.
create_path(hp, ws, w, data, opt) ==
    IF exists(hp, ws, w) THEN
        IF opt.exists_ok THEN Outcome(hp, ws, "")
        ELSE Outcome(hp, ws, "ValueError")
    ELSE Only({ IF st.e # "" THEN AfterRaise(ws, root(ws, w), st)
                ELSE AfterLoop(st, w, data) :
                st \in {PathLoop(Loop(hp, ws, root(ws, w),
                                      opt.can_break_data_structure),
                                 path(ws, w), opt.can_create_empty_list_items,
                                 opt.fill)} })

(***************************************************************************)
(* The caller: the trees it loads, the keys and values it passes.          *)
(***************************************************************************)
E(key, val) == [key |-> key, val |-> val]

\* {"a": 1, "ab": [{"a": 1, "ab": 2}, {"a": 4, "ab": 5}]}
Tree1 ==
    [data |-> Ref(1),
     heap |-> << Dict(<<E(SK("a"), Num(1)), E(SK("ab"), Ref(2))>>),
                 List(<<Ref(3), Ref(4)>>),
                 Dict(<<E(SK("a"), Num(1)), E(SK("ab"), Num(2))>>),
                 Dict(<<E(SK("a"), Num(4)), E(SK("ab"), Num(5))>>) >>]

\* {}
Tree2 == [data |-> Ref(1), heap |-> << Dict(<<>>) >>]

\* ["xy", [7]]
Tree3 ==
    [data |-> Ref(1),
     heap |-> << List(<<Str("xy"), Ref(2)>>), List(<<Num(7)>>) >>]

Trees == {Tree1, Tree2, Tree3}

StrKeys == {"a", "ab"}
Keys == {SK(s) : s \in StrKeys} \cup {IK(i) : i \in -1..MaxIdx}

\* "a" and "a[a-z]*"
Patterns == { <<Atom({"a"})>>, <<Atom({"a"}), Star(Letters)>> }
SplitKeys == {ANY, ANY_INT, ANY_STR, SKIP_LIST, BadKey} \cup {Regex(p) : p \in Patterns}

\* The values written: 7 and a new {}.
NewValues == {"7", "{}"}
NewHeap(hp, v) == IF v = "{}" THEN Append(hp, Dict(<<>>)) ELSE hp
NewValue(hp, v) == IF v = "{}" THEN Ref(Len(hp) + 1) ELSE Num(7)

\* empty_list_item_factory: the default (None) and lambda: "abc"
Fills == {Null, Str("abc")}
DefaultOptions == Options(TRUE, TRUE, TRUE, Null)
AllOptions ==
    {Options(eo, cbs, ccel, Null) : eo \in BOOLEAN, cbs \in BOOLEAN,
                                    ccel \in BOOLEAN}
    \cup {[DefaultOptions EXCEPT !.fill = f] : f \in Fills}

\* A tree by value: every reference replaced by the object it refers to.
RECURSIVE Deep(_, _)
Deep(hp, v) ==
    IF IsDict(hp, v) THEN
        Dict([i \in 1..Len(hp[v.id].ents) |->
                E(hp[v.id].ents[i].key, Deep(hp, hp[v.id].ents[i].val))])
    ELSE IF IsList(hp, v) THEN
        List([i \in 1..Len(hp[v.id].items) |-> Deep(hp, hp[v.id].items[i])])
    ELSE v

(***************************************************************************)
(* CompactEncoder (compact_encoder.py).  The values it is given are trees  *)
(* by value: Dict and List hold their members, not references.  A text is  *)
(* the sequence of its characters.  The encoder object is the record of    *)
(* its two attributes, indent and respect_indent.                          *)
(***************************************************************************)
Bool(b) == [t |-> "bool", b |-> b]
PySet == [t |-> "set"]                  \* a set: not a JSON kind

\* CompactEncoder.__init__
CompactEncoder == [indent |-> -1, respect_indent |-> TRUE]

\* CompactEncoder._is_primitive: int, bool, str, float
is_primitive(obj) == obj.t \in {"num", "bool", "str"}

\* n * '\t' (empty when n <= 0)
Tabs(n) == [i \in 1..n |-> "\t"]

\* s[:n] and s[n:] for n >= 0
SliceTo(s, n) == SubSeq(s, 1, IF n < Len(s) THEN n ELSE Len(s))
SliceFrom(s, n) == SubSeq(s, n + 1, Len(s))

\* sep.join(body)
RECURSIVE join(_, _)
join(sep, body) ==
    IF body = <<>> THEN <<>>
    ELSE IF Len(body) = 1 THEN body[1]
    ELSE body[1] \o sep \o join(sep, Tail(body))

\* str(obj).lower() of an int in 0..9 or a bool
lower_str(obj) ==
    IF obj.t = "bool"
    THEN IF obj.b THEN <<"t", "r", "u", "e">> ELSE <<"f", "a", "l", "s", "e">>
    ELSE <<<<"0", "1", "2", "3", "4", "5", "6", "7", "8", "9">>[obj.n + 1]>>

\* What a run of the generator leaves: the encoder, the exception raised
\* ("" when the generator was exhausted) and the strings it yielded.
Yielded(enc, body) == [enc |-> enc, e |-> "", body |-> body]
Unsupported(enc) == [enc |-> enc, e |-> "TypeError", body |-> <<>>]

\* f'{j[:self.indent]}"{k}": {j[self.indent:]}', evaluated while the
\* generator of the value is suspended at its yield, i.e. before its
\* self.indent -= 1: self.indent is one more than after it has finished.
KeyLine(enc, k, j) ==
    SliceTo(j, enc.indent + 1) \o <<"\"">> \o Chars(k.s) \o <<"\"", ":", " ">>
        \o SliceFrom(j, enc.indent + 1)

RECURSIVE iterencode(_, _)
RECURSIVE DictBody(_, _)
RECURSIVE ListBody(_, _)

\* for k, v in obj.items(): body.extend([... for j in self.iterencode(v)])
DictBody(enc, ents) ==
    IF ents = <<>> THEN Yielded(enc, <<>>)
    ELSE Only({ IF r.e # "" THEN r
                ELSE Only({ IF rest.e # "" THEN rest
                            ELSE Yielded(rest.enc,
                                   <<KeyLine(r.enc, Head(ents).key, r.body[1])>>
                                       \o rest.body) :
                            rest \in {DictBody(r.enc, Tail(ents))} }) :
                r \in {iterencode(enc, Head(ents).val)} })

\* for i in obj: body.extend([j for j in self.iterencode(i)])
ListBody(enc, items) ==
    IF items = <<>> THEN Yielded(enc, <<>>)
    ELSE Only({ IF r.e # "" THEN r
                ELSE Only({ IF rest.e # "" THEN rest
                            ELSE Yielded(rest.enc, r.body \o rest.body) :
                            rest \in {ListBody(r.enc, Tail(items))} }) :
                r \in {iterencode(enc, Head(items))} })

\* self.indent -= 1, after the yield
Leave(enc, text) == Yielded([enc EXCEPT !.indent = @ - 1], <<text>>)

\* The dict branch, entered with self.indent already incremented.
EncodeDict(enc, ind, obj) ==
    IF Len(obj.ents) = 0 THEN Leave(enc, ind \o <<"{", "}">>)
    ELSE Only({ IF r.e # "" THEN r
                ELSE Leave(r.enc, ind \o <<"{", "\n">>
                                      \o join(<<",", "\n">>, r.body)
                                      \o <<"\n">> \o ind \o <<"}">>) :
                r \in {DictBody(enc, obj.ents)} })

\* The list branch, entered with self.indent already incremented.
EncodeList(enc, ind, obj) ==
    IF \A i \in 1..Len(obj.items) : is_primitive(obj.items[i]) THEN
        Only({ IF r.e # "" THEN r
               ELSE Leave([r.enc EXCEPT !.respect_indent = TRUE],
                          ind \o <<"[">> \o join(<<",", " ">>, r.body)
                              \o <<"]">>) :
               r \in {ListBody([enc EXCEPT !.respect_indent = FALSE],
                               obj.items)} })
    ELSE
        Only({ IF r.e # "" THEN r
               ELSE Leave(r.enc, ind \o <<"[", "\n">>
                                     \o join(<<",", "\n">>, r.body)
                                     \o <<"\n">> \o ind \o <<"]">>) :
               r \in {ListBody(enc, obj.items)} })

\* The branches of iterencode, entered with self.indent already incremented.
EncodeKind(enc, ind, obj) ==
    IF obj.t = "dict" THEN EncodeDict(enc, ind, obj)
    ELSE IF obj.t = "list" THEN EncodeList(enc, ind, obj)
    ELSE IF is_primitive(obj) THEN
        IF obj.t = "str"
        THEN Leave(enc, ind \o <<"\"">> \o Chars(obj.s) \o <<"\"">>)
        ELSE Leave(enc, ind \o lower_str(obj))
    ELSE IF obj.t = "null" THEN Leave(enc, ind \o <<"n", "u", "l", "l">>)
    ELSE Unsupported(enc)

\* CompactEncoder.iterencode, run until it is exhausted or raises.
iterencode(enc, obj) ==
    Only({ EncodeKind(e1, IF e1.respect_indent THEN Tabs(e1.indent) ELSE <<>>,
                      obj) :
           e1 \in {[enc EXCEPT !.indent = @ + 1]} })

\* CompactEncoder.encode: ''.join([i for i in self.iterencode(obj)])
encode(enc, obj) ==
    Only({ [enc |-> r.enc, e |-> r.e, text |-> join(<<>>, r.body)] :
           r \in {iterencode(enc, obj)} })

\* The values the caller encodes: supported ones ...
Supported ==
    { Num(1), Str("a"), Null, Bool(TRUE), List(<<>>), Dict(<<>>),
      List(<<Num(1), Str("a"), Bool(FALSE)>>),
      Dict(<<E(SK("ab"), List(<<Str("a"), Str("b")>>))>>),
      Dict(<<E(SK("a"), Num(1)),
             E(SK("b"), List(<<List(<<Num(7)>>), Null, Dict(<<>>)>>))>>) }

\* ... and ones that hold a set or an Exception at depth 0 to 3.
NotSupported ==
    { PySet, Exc("KeyError"),
      List(<<Num(1), PySet>>),
      Dict(<<E(SK("a"), Num(1)), E(SK("b"), PySet)>>),
      Dict(<<E(SK("a"), List(<<Dict(<<E(SK("b"), PySet)>>)>>))>>) }

Objects == Supported \cup NotSupported

\* The last call: its name, receiver, arguments, the exception it raised
\* ("" when it returned), what it returned, and the state it was called in.
Call(op, w, arg, e, res) ==
    [op |-> op, w |-> w, arg |-> arg, e |-> e, res |-> res,
     heap |-> heap, walkers |-> walkers, split |-> split, prev |-> last.op,
     prevw |-> last.w, prevarg |-> last.arg]

NoCall ==
    [op |-> "init", w |-> 0, arg |-> NoKey, e |-> "", res |-> 0,
     heap |-> <<>>, walkers |-> <<>>, split |-> <<>>, prev |-> "init",
     prevw |-> 0, prevarg |-> NoKey]

Init ==
    \E tree \in Trees :
        /\ heap = tree.heap
        /\ walkers = <<JSONWalker(tree.data, NoParent, NoKey)>>
        /\ split = <<>>
        /\ last = NoCall
        /\ fresh = {}
        /\ nops = 0
        /\ encoder = CompactEncoder

CanCall == nops < MaxOps

\* new = walkers[w] / key
Step(w, key) ==
    /\ CanCall
    /\ walkers' = Append(walkers, truediv(heap, walkers, w, key))
    /\ last' = Call("truediv", w, key, "", Len(walkers) + 1)
    /\ fresh' = fresh \cup {Len(walkers) + 1}
    /\ nops' = nops + 1
    /\ UNCHANGED encoder
    /\ UNCHANGED <<heap, split>>

\* split = walkers[w] // key
Split(w, key) ==
    /\ CanCall
    /\ \E r \in {floordiv(heap, walkers, w, key)} :
           IF r.ok
           THEN /\ walkers' = r.ws
                /\ split' = r.data
                /\ last' = Call("floordiv", w, key, "", r.data)
           ELSE /\ last' = Call("floordiv", w, key, r.e, <<>>)
                /\ UNCHANGED <<walkers, split>>
    /\ fresh' = fresh \cup (Len(walkers) + 1)..Len(walkers')
    /\ nops' = nops + 1
    /\ UNCHANGED encoder
    /\ UNCHANGED heap

\* split = split / key
SplitStep(key) ==
    /\ CanCall
    /\ \E r \in {split_truediv(heap, walkers, split, key)} :
           /\ walkers' = r.ws
           /\ split' = r.data
           /\ last' = Call("split_truediv", 0, key, "", r.data)
    /\ fresh' = fresh \cup (Len(walkers) + 1)..Len(walkers')
    /\ nops' = nops + 1
    /\ UNCHANGED encoder
    /\ UNCHANGED heap

\* split = split // key
SplitSplit(key) ==
    /\ CanCall
    /\ \E r \in {split_floordiv(heap, walkers, split, key)} :
           IF r.ok
           THEN /\ walkers' = r.ws
                /\ split' = r.data
                /\ last' = Call("split_floordiv", 0, key, "", r.data)
           ELSE /\ last' = Call("split_floordiv", 0, key, r.e, <<>>)
                /\ UNCHANGED <<walkers, split>>
    /\ fresh' = fresh \cup (Len(walkers) + 1)..Len(walkers')
    /\ nops' = nops + 1
    /\ UNCHANGED encoder
    /\ UNCHANGED heap

\* walkers[w].data = value
Write(w, v) ==
    /\ nops < MaxOps
    /\ \E r \in {data_setter(NewHeap(heap, v), walkers, w, NewValue(heap, v))} :
           IF r.ok
           THEN /\ heap' = r.hp
                /\ walkers' = r.ws
                /\ last' = Call("data", w, [value |-> v], "", 0)
           ELSE /\ last' = Call("data", w, [value |-> v], r.e, 0)
                /\ UNCHANGED <<heap, walkers>>
    /\ fresh' = {}
    /\ nops' = nops + 1
    /\ UNCHANGED encoder
    /\ UNCHANGED split

\* The caller may repeat its last create_path call once the budget is spent.
Again(w, arg) ==
    /\ nops = MaxOps
    /\ last.op = "create_path" /\ last.w = w /\ last.arg = arg

\* walkers[w].create_path(value, **opt)
CreatePath(w, v, opt) ==
    /\ nops < MaxOps \/ Again(w, [value |-> v, opt |-> opt])
    /\ \E r \in {create_path(NewHeap(heap, v), walkers, w, NewValue(heap, v), opt)} :
           /\ heap' = r.hp
           /\ walkers' = r.ws
           /\ last' = Call("create_path", w, [value |-> v, opt |-> opt], r.e, 0)
    /\ fresh' = {}
    /\ nops' = nops + 1
    /\ UNCHANGED encoder
    /\ UNCHANGED split

Next ==
    \/ \E w \in 1..Len(walkers), key \in Keys : Step(w, key)
    \/ \E w \in 1..Len(walkers), key \in SplitKeys : Split(w, key)
    \/ \E key \in Keys : SplitStep(key)
    \/ \E key \in SplitKeys : SplitSplit(key)
    \/ \E w \in 1..Len(walkers), v \in NewValues : Write(w, v)
    \/ \E w \in 1..Len(walkers), opt \in AllOptions : CreatePath(w, "7", opt)

Spec == Init /\ [][Next]_vars

(***************************************************************************)
(* The caller of one CompactEncoder: it encodes values one after another,  *)
(* and goes on after a TypeError.                                          *)
(***************************************************************************)
EncInit ==
    /\ heap = <<>>
    /\ walkers = <<>>
    /\ split = <<>>
    /\ last = NoCall
    /\ fresh = {}
    /\ nops = 0
    /\ encoder = CompactEncoder

\* text = encoder.encode(obj)
Encode(obj) ==
    /\ nops < MaxEncodes
    /\ \E r \in {encode(encoder, obj)} :
           /\ encoder' = r.enc
           /\ last' = Call("encode", 0, obj, r.e, r.text)
    /\ nops' = nops + 1
    /\ UNCHANGED <<heap, walkers, split, fresh>>

EncNext == \E obj \in Objects : Encode(obj)

EncSpec == EncInit /\ [][EncNext]_vars

(***************************************************************************)
(* Properties.  `last` holds the state a call was made in, so a property   *)
(* of a call relates last.heap / last.walkers to heap / walkers.           *)
(***************************************************************************)
\* The tree of the root walker, by value, now and when the last call began.
TreeNow == Deep(heap, walkers[1].data)
TreeBefore == Deep(last.heap, last.walkers[1].data)

\* The walkers the caller held when the last call began are as they were.
OldWalkersUnchanged == SubSeq(walkers, 1, Len(last.walkers)) = last.walkers

\* data is an object with the str key `key`, or an array with `key` an
\* in-range non-negative index: JSON indexing of data by key is defined.
JsonHas(hp, data, key) ==
    \/ /\ IsDict(hp, data) /\ key.k = "str"
       /\ \E i \in 1..Len(hp[data.id].ents) : hp[data.id].ents[i].key = key
    \/ /\ IsList(hp, data) /\ key.k = "int"
       /\ 0 <= key.i /\ key.i < Len(hp[data.id].items)

\* data[key] where JsonHas(hp, data, key)
JsonAt(hp, data, key) ==
    IF IsDict(hp, data)
    THEN LET i == CHOOSE i \in 1..Len(hp[data.id].ents) : hp[data.id].ents[i].key = key
         IN  hp[data.id].ents[i].val
    ELSE hp[data.id].items[key.i + 1]

\* C1: a step by a key the walker's object or array contains returns a new
\* walker whose value is the member at that key, whose parent is the walker
\* stepped from and whose parent key is the key; the walker stepped from,
\* every other walker and the tree are unchanged.
C1_StepSuccess ==
    (last.op = "truediv" /\ JsonHas(last.heap, last.walkers[last.w].data, last.arg))
    => /\ last.res = Len(last.walkers) + 1
       /\ Len(walkers) = last.res
       /\ walkers[last.res].data = JsonAt(last.heap, last.walkers[last.w].data, last.arg)
       /\ walkers[last.res].parent = last.w
       /\ walkers[last.res].parent_key = last.arg
       /\ OldWalkersUnchanged
       /\ heap = last.heap
       /\ split = last.split

\* C1 witness: a step by index 1 into an array of two members.
C1_Witness ==
    /\ last.op = "truediv"
    /\ last.arg = IK(1)
    /\ IsList(last.heap, last.walkers[last.w].data)
    /\ JsonHas(last.heap, last.walkers[last.w].data, last.arg)
    /\ walkers[last.res].data.t = "ref"

\* C2 (as claimed): a step by a key on which JSON indexing fails (wrong
\* container kind, missing key, out-of-range or negative index, a scalar)
\* returns a walker holding the error-marker, with parent and parent key set.
C2_StepFailureIsError ==
    (last.op = "truediv" /\ ~JsonHas(last.heap, last.walkers[last.w].data, last.arg))
    => /\ IsExc(walkers[last.res].data)
       /\ walkers[last.res].parent = last.w
       /\ walkers[last.res].parent_key = last.arg

\* An object: a dict whose keys are all str.
IsObject(hp, data) ==
    IsDict(hp, data) /\ \A i \in 1..Len(hp[data.id].ents) : hp[data.id].ents[i].key.k = "str"

\* The value of walker w when the last call began.
DataBefore(w) == last.walkers[w].data

\* The fields (object) or elements (array) of data, with their keys, in order.
Members(hp, data) ==
    IF IsDict(hp, data) THEN hp[data.id].ents
    ELSE [i \in 1..Len(hp[data.id].items) |-> E(IK(i - 1), hp[data.id].items[i])]

\* One walker per pair of ents, in order, each with parent w and the
\* pair's key.
OnePerMember(ents, w) ==
    [i \in 1..Len(ents) |-> JSONWalker(ents[i].val, w, ents[i].key)]

\* What the selector table gives for walker w and selector key, in the state
\* the last call began in: a sequence of walkers, <<w itself>> for the
\* skip-marker on a non-array.
FanOut(w, key) ==
    LET d == DataBefore(w)
        isd == IsDict(last.heap, d)
        isl == IsList(last.heap, d)
    IN  CASE key.sel \in {"None", "str"} /\ isd -> OnePerMember(Members(last.heap, d), w)
          [] key.sel \in {"None", "int", "SKIP_LIST"} /\ isl ->
                OnePerMember(Members(last.heap, d), w)
          [] key.sel = "regex" /\ isd ->
                OnePerMember(
                    SelectSeq(Members(last.heap, d),
                              LAMBDA e : fullmatch(key.pat, Chars(e.key.s))), w)
          [] key.sel = "SKIP_LIST" /\ ~isl -> <<last.walkers[w]>>
          [] OTHER -> <<>>

\* The walkers the split walker now lists.
SplitMembers == [i \in 1..Len(split) |-> walkers[split[i]]]

\* A dict met by the last call has str keys only (is a JSON object).
ObjectOrNoDict(w) ==
    IsDict(last.heap, DataBefore(w)) => IsObject(last.heap, DataBefore(w))

\* C3: walker // key returns the set the selector table gives (one new walker
\* per field or element, in order, with parent and parent key set; the walker
\* itself for the skip-marker on a non-array; the empty set otherwise), and
\* a key that is none of the five kinds raises.  Objects have str keys.
C3_SplitTable ==
    (last.op = "floordiv" /\ ObjectOrNoDict(last.w))
    => /\ OldWalkersUnchanged
       /\ heap = last.heap
       /\ IF last.arg.sel = "other"
          THEN last.e = "TypeError" /\ walkers = last.walkers /\ split = last.split
          ELSE /\ last.e = ""
               /\ split = last.res
               /\ SplitMembers = FanOut(last.w, last.arg)
               /\ IF last.arg.sel = "SKIP_LIST" /\ ~IsList(last.heap, DataBefore(last.w))
                  THEN split = <<last.w>> /\ walkers = last.walkers
                  ELSE /\ Len(walkers) = Len(last.walkers) + Len(split)
                       /\ \A i \in 1..Len(split) : split[i] = Len(last.walkers) + i

\* C3 witness: the scenario step("ab").split(int) on tree 1: two walkers,
\* {"a": 1, "ab": 2} and {"a": 4, "ab": 5}, in that order.
C3_Witness ==
    /\ last.op = "floordiv" /\ last.arg = ANY_INT
    /\ path(last.walkers, last.w) = <<SK("ab")>>
    /\ Len(split) = 2
    /\ Deep(heap, walkers[split[1]].data)
          = Dict(<<E(SK("a"), Num(1)), E(SK("ab"), Num(2))>>)
    /\ Deep(heap, walkers[split[2]].data)
          = Dict(<<E(SK("a"), Num(4)), E(SK("ab"), Num(5))>>)

\* C3 witness of the regular expression: "a" on {"a": .., "ab": ..} gives
\* the one field "a".
C3_WitnessRegex ==
    /\ last.op = "floordiv" /\ last.arg = Regex(<<Atom({"a"})>>)
    /\ Len(Members(last.heap, DataBefore(last.w))) = 2
    /\ Len(split) = 1

\* The path of walker w resolved key by key from the root walker's value.
ResolveNow(w) == Resolve(heap, walkers[1].data, path(walkers, w))

\* The path holds only str keys and non-negative int keys.
PlainPath(keys) ==
    \A i \in 1..Len(keys) : keys[i].k = "str" \/ (keys[i].k = "int" /\ keys[i].i >= 0)

\* The value create_path was given.
Given == NewValue(last.heap, last.arg.value)

\* The array the j-th key of keys indexes, after the call, holds fill in
\* every slot the call added below that index.
AddedSlotsHold(keys, j, fill) ==
    LET pre == SubSeq(keys, 1, j - 1)
        old == Resolve(last.heap, last.walkers[1].data, pre)
        oldlen == IF old.ok /\ IsList(last.heap, old.v)
                  THEN Len(last.heap[old.v.id].items) ELSE 0
        new == Resolve(heap, walkers[1].data, pre)
    IN  /\ new.ok /\ IsList(heap, new.v)
        /\ \A p \in (oldlen + 1)..keys[j].i : heap[new.v.id].items[p] = fill

\* C4 precondition: create_path called with exists_ok, can_break_data_structure
\* and can_create_empty_list_items all true on a walker whose path did not
\* resolve and is plain.
C4_Case ==
    /\ last.op = "create_path"
    /\ last.arg.opt.exists_ok
    /\ last.arg.opt.can_break_data_structure
    /\ last.arg.opt.can_create_empty_list_items
    /\ ~exists(last.heap, last.walkers, last.w)
    /\ PlainPath(path(last.walkers, last.w))

\* C4: such a call returns, and then the walker exists, its path (unchanged)
\* resolves from the root to the value given, its own value is that value,
\* the slots added to arrays below the indices of the path hold the fill
\* value, and its parent is a walker on the container that now holds the
\* value at the walker's parent key.
C4_CreatePath ==
    C4_Case
    => LET w == last.w
           keys == path(walkers, w)
           p == walkers[w].parent
       IN  /\ last.e = ""
           /\ keys = path(last.walkers, w)
           /\ exists(heap, walkers, w)
           /\ ResolveNow(w) = Got(Given)
           /\ walkers[w].data = Given
           /\ \A j \in 1..Len(keys) :
                 keys[j].k = "int" => AddedSlotsHold(keys, j, last.arg.opt.fill)
           /\ p # NoParent
           /\ ResolveNow(p) = Got(walkers[p].data)
           /\ JsonHas(heap, walkers[p].data, walkers[w].parent_key)
           /\ JsonAt(heap, walkers[p].data, walkers[w].parent_key) = Given

\* C4 witness: a path of two keys ending in index 1 was created in a tree
\* that held neither, with one slot added below the index.
C4_Witness ==
    /\ C4_Case
    /\ Len(path(walkers, last.w)) = 2
    /\ path(walkers, last.w)[2] = IK(1)
    /\ ~Resolve(last.heap, last.walkers[1].data, SubSeq(path(walkers, last.w), 1, 1)).ok
    /\ last.arg.opt.fill = Str("abc")
    /\ Deep(heap, walkers[walkers[last.w].parent].data) = List(<<Str("abc"), Num(7)>>)

\* The walker's path resolves from the root to a value equal to its own.
PathReproducesValue(w) ==
    exists(heap, walkers, w)
    => Deep(heap, ResolveNow(w).v) = Deep(heap, walkers[w].data)

\* C5 (as claimed): after any sequence of steps, splits, value writes and
\* create_path calls, every walker that exists has the value its path
\* resolves to from the root.
C5_ExistsImpliesValue == \A w \in 1..Len(walkers) : PathReproducesValue(w)

\* The walker and its ancestors below the root.
RECURSIVE Chain(_)
Chain(w) == IF walkers[w].parent = NoParent THEN {} ELSE {w} \cup Chain(walkers[w].parent)

\* C5 (amended): a walker that exists and that, with all its ancestors below
\* the root, was made after the most recent value write or create_path has
\* the value its path resolves to from the root.
C5_FreshExistsImpliesValue ==
    \A w \in 1..Len(walkers) : Chain(w) \subseteq fresh => PathReproducesValue(w)

\* C5 witness: after a value write of 7, a walker stepped to since then
\* exists and has the value 7 its path resolves to.
C5_Witness ==
    /\ last.op = "truediv" /\ last.prev = "data"
    /\ Chain(last.res) = {last.res} /\ last.res \in fresh
    /\ exists(heap, walkers, last.res)
    /\ walkers[last.res].data = Num(7)
    /\ ResolveNow(last.res) = Got(Num(7))

\* The last call repeats the call before it: create_path on the same
\* walker with the same value and options.
Repeated ==
    /\ last.op = "create_path" /\ last.prev = "create_path"
    /\ last.prevw = last.w /\ last.prevarg = last.arg

\* C6: with exists_ok true, a create_path call that repeats the call before
\* it leaves the tree as the first call left it, whether the first call
\* returned or raised.
C6_Idempotent == (Repeated /\ last.arg.opt.exists_ok) => TreeNow = TreeBefore

\* C6 witness: create_path called twice on the walker / "a" / "ab" of the
\* tree {}, which the first call made {"a": {"ab": 7}}.
C6_Witness ==
    /\ Repeated /\ last.arg.opt.exists_ok
    /\ path(walkers, last.w) = <<SK("a"), SK("ab")>>
    /\ TreeNow = Dict(<<E(SK("a"), Dict(<<E(SK("ab"), Num(7))>>))>>)
    /\ nops = MaxOps + 1

\* C6 second witness: the first call raised after it had changed the tree.
C6_WitnessRaised ==
    /\ Repeated /\ last.arg.opt.exists_ok
    /\ last.e # ""
    /\ TreeNow = List(<<>>)

\* The results of / key on the walkers ms that do not hold an Exception.
RECURSIVE StepEach(_, _)
StepEach(ms, key) ==
    IF ms = <<>> THEN <<>>
    ELSE LET r == GetItem(last.heap, DataBefore(Head(ms)), key)
         IN  (IF r.ok /\ ~IsExc(r.v) THEN <<JSONWalker(r.v, Head(ms), key)>> ELSE <<>>)
             \o StepEach(Tail(ms), key)

\* The fan-outs of the walkers ms, one after the other.
RECURSIVE FanOutEach(_, _)
FanOutEach(ms, key) ==
    IF ms = <<>> THEN <<>> ELSE FanOut(Head(ms), key) \o FanOutEach(Tail(ms), key)

\* C7: split / key lists, in the order of the members, the new walkers
\* member / key that do not hold the error-marker, and raises nothing;
\* split // key lists the fan-outs of the members in member order.
C7_SetStepFilters ==
    /\ last.op = "split_truediv"
       => /\ last.e = ""
          /\ SplitMembers = StepEach(last.split, last.arg)
          /\ \A i \in 1..Len(split) : split[i] = Len(last.walkers) + i
          /\ Len(walkers) = Len(last.walkers) + Len(split)
          /\ OldWalkersUnchanged
          /\ heap = last.heap
    /\ (last.op = "split_floordiv" /\ last.e = ""
            /\ \A i \in 1..Len(last.split) : ObjectOrNoDict(last.split[i]))
       => /\ SplitMembers = FanOutEach(last.split, last.arg)
          /\ OldWalkersUnchanged
          /\ heap = last.heap

\* C7 witness: the chain // None / "a" over the two objects of tree 1's
\* array gives the values 1 and 4 in that order.
C7_Witness ==
    /\ last.op = "split_truediv" /\ last.prev = "split_floordiv"
    /\ last.arg = SK("a")
    /\ Len(last.split) = 2
    /\ [i \in 1..Len(split) |-> walkers[split[i]].data] = <<Num(1), Num(4)>>

\* C7 second witness: a member whose step fails is dropped.
C7_WitnessDropped ==
    /\ last.op = "split_truediv"
    /\ Len(last.split) = 2
    /\ Len(split) = 1

\* C8 (as claimed): no walker of a split made by // holds the error-marker.
C8_NoErrorInFanOut ==
    last.op \in {"floordiv", "split_floordiv"}
    => \A i \in 1..Len(split) : ~IsExc(walkers[split[i]].data)

\* C8 (amended): a walker of a split made by // holds the error-marker only
\* when the key is the skip-marker and the walker is the one split (or a
\* member of the set split) passed through.
C8_ErrorOnlyPassedThrough ==
    /\ (last.op = "floordiv" /\ last.e = "")
       => \A i \in 1..Len(split) :
             IsExc(walkers[split[i]].data)
             => last.arg = SKIP_LIST /\ split[i] = last.w /\ IsExc(DataBefore(last.w))
    /\ (last.op = "split_floordiv" /\ last.e = "")
       => \A i \in 1..Len(split) :
             IsExc(walkers[split[i]].data)
             => /\ last.arg = SKIP_LIST
                /\ \E j \in 1..Len(last.split) :
                      last.split[j] = split[i] /\ IsExc(DataBefore(split[i]))
    /\ last.op = "split_truediv"
       => \A i \in 1..Len(split) : ~IsExc(walkers[split[i]].data)

\* C8 witness: the skip-marker on a walker holding the error-marker gives
\* the set of that walker.
C8_Witness ==
    /\ last.op = "floordiv" /\ last.arg = SKIP_LIST
    /\ IsExc(DataBefore(last.w))
    /\ split = <<last.w>>

\* C9 (as claimed): create_path on a walker whose path holds a negative
\* index raises, whatever the options.
C9_NegativeIndexRejected ==
    (last.op = "create_path"
        /\ ~PlainPath(path(last.walkers, last.w)))
    => last.e # ""

\* The path keys[1..j-1] resolves by JSON indexing, in the state the last
\* call began in, to a value that is no object while keys[j] is a str key,
\* or no array while keys[j] is an int key.
Mismatch(keys, j) ==
    LET pre == SubSeq(keys, 1, j - 1)
        r == Resolve(last.heap, last.walkers[1].data, pre)
    IN  /\ \A i \in 1..(j - 1) :
              LET ri == Resolve(last.heap, last.walkers[1].data, SubSeq(keys, 1, i - 1))
              IN  ri.ok /\ JsonHas(last.heap, ri.v, keys[i])
        /\ r.ok
        /\ IF keys[j].k = "str" THEN ~IsDict(last.heap, r.v) ELSE ~IsList(last.heap, r.v)

\* new keeps old: a scalar is the same scalar, an object is an object with
\* every old field, an array an array with every old element, each kept.
RECURSIVE Keeps(_, _)
Keeps(old, new) ==
    IF old.t = "dict" THEN
        /\ new.t = "dict"
        /\ \A i \in 1..Len(old.ents) :
              \E j \in 1..Len(new.ents) :
                  /\ new.ents[j].key = old.ents[i].key
                  /\ Keeps(old.ents[i].val, new.ents[j].val)
    ELSE IF old.t = "list" THEN
        /\ new.t = "list"
        /\ Len(new.items) >= Len(old.items)
        /\ \A i \in 1..Len(old.items) : Keeps(old.items[i], new.items[i])
    ELSE new = old

\* C10: with can_break_data_structure false, create_path keeps every value
\* the tree held (scalars as they were, objects and arrays with all their
\* fields and elements), whether it returns or raises; and when it walks the
\* path and meets a value of the wrong kind for the next key, it raises
\* KeyError and leaves the tree as it was.
C10_NoBreak ==
    (last.op = "create_path" /\ ~last.arg.opt.can_break_data_structure)
    => /\ Keeps(TreeBefore, TreeNow)
       /\ \A j \in 1..Len(path(last.walkers, last.w)) :
             (~exists(last.heap, last.walkers, last.w)
                 /\ Mismatch(path(last.walkers, last.w), j))
             => last.e = "KeyError" /\ TreeNow = TreeBefore

\* C10 witness: the walk met the number 1 at "a" of tree 1 where the next
\* key is a str key, and raised.
C10_Witness ==
    /\ last.op = "create_path" /\ ~last.arg.opt.can_break_data_structure
    /\ path(last.walkers, last.w) = <<SK("a"), SK("ab")>>
    /\ Mismatch(path(last.walkers, last.w), 2)
    /\ last.e = "KeyError"
    /\ TreeNow # List(<<>>) /\ TreeNow.t = "dict" /\ Len(TreeNow.ents) = 2

\* C10 second witness: the call returned, having added to the tree.
C10_WitnessAdded ==
    /\ last.op = "create_path" /\ ~last.arg.opt.can_break_data_structure
    /\ last.e = ""
    /\ TreeNow # TreeBefore

(***************************************************************************)
(* C11: the text encode(v) returns depends only on v: an encode(v) that    *)
(* returns, after any earlier calls on the same encoder (calls that raised *)
(* TypeError included), returns the text a new CompactEncoder returns for  *)
(* v.                                                                      *)
(***************************************************************************)
C11_Deterministic ==
    (last.op = "encode" /\ last.e = "")
        => last.res = encode(CompactEncoder, last.arg).text

=============================================================================
